---------------------------- MODULE Spec2Model ----------------------------
(***************************************************************************)
(* GoDoc2Anki: the fetch -> extract -> upload pipeline of cmd/GoStdLib.go  *)
(* and the HTMLTrees subtree selection engine.                             *)
(*                                                                         *)
(* Four specifications share this module:                                  *)
(*   Spec      the pipeline (TaskGenerator, HtmlDownloader, HtmlProcessor, *)
(*             NoteUploader and the three channels of main);               *)
(*   SpecUpload NoteUploader alone, its channel fed by any producer;       *)
(*   SpecTree  the projections of HTMLTrees (Copy, rec, DeepCopy,          *)
(*             DeepCopyFunc) over bounded node trees;                      *)
(*   SpecLinks the link-normalization step of HtmlProcessor (Modify with   *)
(*             the href closure) over bounded documents.                   *)
(* Each specification leaves the variables of the others at their idle     *)
(* value.                                                                  *)
(***************************************************************************)
EXTENDS Integers, Sequences, FiniteSets, Bags, TLC

VARIABLES
    \* ---- pipeline ----
    genLine,        \* TaskGenerator: the line of the task file the scanner is at
    downloadQueue,  \* chan Task: TaskGenerator -> HtmlDownloader
    processQueue,   \* chan Task: HtmlDownloader -> HtmlProcessor
    ankiQueue,      \* chan Task: HtmlProcessor -> NoteUploader
    fetch,          \* the HtmlDownloader goroutines holding a task: a bag of [pc, task]
    extract,        \* the HtmlProcessor goroutines holding a task: a bag of [pc, task]
    upl,            \* NoteUploader: [pc, task, i, decks]
    fatal,          \* "" while the process runs, else the log.Fatal that ended it
    \* ---- pipeline history (observations, never read by the program) ----
    hist,           \* per task: the outcomes of its fetches, in order
    emitted,        \* per task: how often a fetch worker sent it downstream
    consumed,       \* per task: how often the uploader received it
    arrived,        \* per deck name: how many tasks the uploader received
    created,        \* per deck name: how often Decks.Create was called
    retried,        \* Notes.Add answered 500 for the task the uploader holds
    accepted,       \* the notes Anki accepted for the task the uploader holds
    dump,           \* the note NoteUploader's log.Fatalf printed, if any
    fed,            \* SpecUpload: the tasks the producer has sent to ankiQueue
    \* ---- trees ----
    tree,           \* the source node arena
    sel,            \* the relevance predicate, as the set of nodes it accepts
    result,         \* the arena of copies an operation built
    op,             \* the operation that built `result`
    xtask           \* SpecExtract: the task in HtmlProcessor's loop body

pipeVars == <<genLine, downloadQueue, processQueue, ankiQueue, fetch, extract,
              upl, fatal, hist, emitted, consumed, created, accepted, dump, fed,
              arrived, retried>>
treeVars == <<tree, sel, result, op, xtask>>
vars == <<pipeVars, treeVars>>

-----------------------------------------------------------------------------
(* Bounds of the model *)

\* lines of the task file
NumLines == 4
\* capacity of every channel (main: 100, 100, 1000)
QueueCap == 1
\* answers other than a readable 200 (429, transport error, unreadable body)
\* the model follows in one run
MaxRetries == 1
\* SpecUpload: the tasks the producer sends
MaxFeed == 3
\* SpecTree: the nodes of a source tree
MaxNodes == 4
\* SpecLinks: the nodes of a document and the attributes of a node
MaxDocNodes == 2
MaxAttrs == 3
\* SpecExtract: the nodes of a page below its document node
MaxExtNodes == 4

-----------------------------------------------------------------------------
(* main's worker counts; the task file and the pages behind its URLs *)

\* go Parallel(processQueue, downloadQueue, HtmlDownloader, 5)
NumFetch == 5
\* go Parallel(ankiQueue, processQueue, HtmlProcessor, 10)
NumExtract == 10

NoTask == [id |-> 0]
NoHtml == "nil"

\* One line of the task file: a "<deck> <url>" pair, a blank line, or a line
\* fmt.Sscanf cannot scan into two words (here the last one).
Line(k) ==
    CASE k = NumLines -> [kind |-> "malformed"]
      [] k % 4 = 1 -> [kind |-> "pair", deck |-> "Go::Std::fmt", url |-> "https://pkg.go.dev/fmt"]
      [] k % 4 = 2 -> [kind |-> "blank"]
      [] k % 4 = 3 -> [kind |-> "pair", deck |-> "Go::os", url |-> "https://pkg.go.dev/os"]
      [] OTHER     -> [kind |-> "pair", deck |-> "Go::Std::fmt", url |-> "https://pkg.go.dev/fmt/x"]

Lines == 1..NumLines
TaskIds == {k \in Lines : Line(k).kind = "pair"}
DeckNames == {"Go::Std::fmt", "Go::os"}

\* The bodies a GET may answer with, and the declaration blocks (variables,
\* constants, functions, types) HtmlProcessor finds in each; the nil payload
\* of a failed fetch parses to an empty document.
Pages == {"page0", "page2"}
DeclCount(html) ==
    CASE html = "page2" -> 2
      [] OTHER -> 0

\* len(strings.SplitN(t.deck, "::", 3))
DeckParts(deck) ==
    CASE deck = "Go::Std::fmt" -> 3
      [] deck = "Go::os" -> 2
      [] OTHER -> 1

\* Task.ImportPath succeeds (it ends the process on fewer than 3 parts)
ImportPathOk(task) == DeckParts(task.deck) >= 3

NewTask(k, url, deck) ==
    [id |-> k, url |-> url, deck |-> deck, html |-> NoHtml, notes |-> <<>>, err |-> FALSE]

\* Task.AddNote, for declaration j of the task's page
AddNote(task, j) ==
    [task EXCEPT !.notes = Append(@, [DeckName |-> task.deck, Identifier |-> <<task.html, j>>])]

Running == fatal = ""

\* log.Fatal: os.Exit(1).  The goroutines and the channels are gone with the
\* process; what was observed of the run stays.
Exit(reason) ==
    /\ fatal' = reason
    /\ genLine' = 0
    /\ downloadQueue' = <<>>
    /\ processQueue' = <<>>
    /\ ankiQueue' = <<>>
    /\ fetch' = EmptyBag
    /\ extract' = EmptyBag
    /\ upl' = [pc |-> "exit", task |-> NoTask, i |-> 0, decks |-> {}]
    /\ UNCHANGED <<hist, emitted, consumed, arrived, accepted, retried, fed>>

\* A send on a buffered channel blocks while the buffer is full.
CanSendNonBlocking(q) == TRUE
CanSend(q) == Len(q) < QueueCap

Send(q, task) == Append(q, task)

-----------------------------------------------------------------------------
(* TaskGenerator *)

\* scanner.Scan() returned a blank line: continue
GenBlank ==
    /\ Running
    /\ genLine \in Lines
    /\ Line(genLine).kind = "blank"
    /\ genLine' = genLine + 1
    /\ UNCHANGED treeVars
    /\ UNCHANGED <<downloadQueue, processQueue, ankiQueue, fetch, extract, upl,
                   fatal, hist, emitted, consumed, created, accepted, dump, fed, arrived, retried>>

\* fmt.Sscanf failed on a non-blank line: log.Fatal
GenFatal ==
    /\ Running
    /\ genLine \in Lines
    /\ Line(genLine).kind = "malformed"
    /\ Exit("TaskGenerator")
    /\ UNCHANGED <<created, dump>>
    /\ UNCHANGED treeVars

\* task := NewTask(url, deck); out <- task
GenEmit ==
    /\ Running
    /\ genLine \in Lines
    /\ Line(genLine).kind = "pair"
    /\ CanSend(downloadQueue)
    /\ downloadQueue' = Send(downloadQueue,
                             NewTask(genLine, Line(genLine).url, Line(genLine).deck))
    /\ genLine' = genLine + 1
    /\ UNCHANGED treeVars
    /\ UNCHANGED <<processQueue, ankiQueue, fetch, extract, upl, fatal, hist,
                   emitted, consumed, created, accepted, dump, fed, arrived, retried>>

TaskGenerator == GenBlank \/ GenFatal \/ GenEmit

-----------------------------------------------------------------------------
(* HtmlDownloader.  The NumFetch goroutines run the same code and have no  *)
(* identity: `fetch` holds one [pc, task] per goroutine that holds a task, *)
(* with pc "get" (http.Get and the handling of its answer), "sendErr" or   *)
(* "sendOk" (out <- task); the others wait at `task := <-in`.              *)

FetchOutcomes == {"transport", "429", "200", "readerr"}

\* what `hist` keeps of an answer: both error paths attach task.err
Seen(o) == IF o \in {"transport", "readerr"} THEN "err" ELSE o

RECURSIVE CountRetries(_)
CountRetries(h) ==
    IF h = <<>> THEN 0
    ELSE (IF Head(h) = "200" THEN 0 ELSE 1) + CountRetries(Tail(h))

RECURSIVE SumRetries(_)
SumRetries(S) ==
    IF S = {} THEN 0
    ELSE LET t == CHOOSE x \in S : TRUE IN CountRetries(hist[t]) + SumRetries(S \ {t})

Retries == SumRetries(TaskIds)

One(x) == SetToBag({x})

\* task := <-in  (line 140 before the loop, line 169 at its end)
FetchRecv ==
    /\ Running
    /\ BagCardinality(fetch) < NumFetch
    /\ downloadQueue # <<>>
    /\ fetch' = fetch (+) One([pc |-> "get", task |-> Head(downloadQueue)])
    /\ downloadQueue' = Tail(downloadQueue)
    /\ UNCHANGED treeVars
    /\ UNCHANGED <<genLine, processQueue, ankiQueue, extract, upl, fatal, hist,
                   emitted, consumed, created, accepted, dump, fed, arrived, retried>>

\* Where goroutine x goes after `out <- task` on an error path: `continue`
\* re-enters the loop body with the same task.
AfterErrSend(x) == One([pc |-> "get", task |-> x.task])

\* Where goroutine x goes on a 429: sleep, `continue Outer`: same task, no send.
After429Send(x) == [pc |-> "sendOk", task |-> x.task]
After429(x) == [pc |-> "get", task |-> x.task]

\* http.Get(task.url), the switch on the status code and io.ReadAll
FetchGet(x) ==
    /\ Running
    /\ x.pc = "get"
    /\ \E o \in FetchOutcomes, body \in Pages :
         /\ o # "200" => Retries < MaxRetries /\ body = "page0"
         /\ hist' = [hist EXCEPT ![x.task.id] = Append(@, Seen(o))]
         /\ fetch' = (fetch (-) One(x)) (+) One(
              CASE o \in {"transport", "readerr"} ->
                     [pc |-> "sendErr", task |-> [x.task EXCEPT !.err = TRUE]]
                [] o = "429" -> After429(x)
                [] OTHER ->
                     [pc |-> "sendOk", task |-> [x.task EXCEPT !.html = body]])
    /\ UNCHANGED treeVars
    /\ UNCHANGED <<genLine, downloadQueue, processQueue, ankiQueue, extract, upl,
                   fatal, emitted, consumed, created, accepted, dump, fed, arrived, retried>>

\* any status other than 200 and 429: log.Fatal(resp.Status)
FetchFatal(x) ==
    /\ Running
    /\ x.pc = "get"
    /\ Exit("HtmlDownloader")
    /\ UNCHANGED <<created, dump>>
    /\ UNCHANGED treeVars

\* out <- task; continue  (lines 145-146 and 162-163)
FetchSendErr(x) ==
    /\ Running
    /\ x.pc = "sendErr"
    /\ CanSend(processQueue)
    /\ processQueue' = Send(processQueue, x.task)
    /\ emitted' = [emitted EXCEPT ![x.task.id] = @ + 1]
    /\ fetch' = (fetch (-) One(x)) (+) AfterErrSend(x)
    /\ UNCHANGED treeVars
    /\ UNCHANGED <<genLine, downloadQueue, ankiQueue, extract, upl, fatal, hist,
                   consumed, created, accepted, dump, fed, arrived, retried>>

\* out <- task; resp.Body.Close(); then the receive of the next task
FetchSendOk(x) ==
    /\ Running
    /\ x.pc = "sendOk"
    /\ CanSend(processQueue)
    /\ processQueue' = Send(processQueue, x.task)
    /\ emitted' = [emitted EXCEPT ![x.task.id] = @ + 1]
    /\ fetch' = fetch (-) One(x)
    /\ UNCHANGED treeVars
    /\ UNCHANGED <<genLine, downloadQueue, ankiQueue, extract, upl, fatal, hist,
                   consumed, created, accepted, dump, fed, arrived, retried>>

HtmlDownloader ==
    \/ FetchRecv
    \/ \E x \in BagToSet(fetch) :
         FetchGet(x) \/ FetchFatal(x) \/ FetchSendErr(x) \/ FetchSendOk(x)

-----------------------------------------------------------------------------
(* HtmlProcessor.  `extract` holds one [pc, task] per goroutine blocked at *)
(* `out <- task` (pc "send"); the loop body up to the send is one step,    *)
(* taken with the receive.                                                 *)

\* The notes the loop body adds: one Task.AddNote per declaration block of the
\* parsed payload, in the order the blocks are found.  task.err is not read.
RECURSIVE AddNotes(_, _)
AddNotes(task, j) ==
    IF j > DeclCount(task.html) THEN task ELSE AddNotes(AddNote(task, j), j + 1)

ExtractNotes(task) == AddNotes(task, 1)

\* The loop body ends the process: task.ImportPath() is called for every
\* declaration block and log.Fatalf's on a deck name of fewer than 3 parts.
ExtractFails(task) == DeclCount(task.html) > 0 /\ ~ImportPathOk(task)

\* for task := range in { ... }  up to line 373
ExtractRecv ==
    /\ Running
    /\ BagCardinality(extract) < NumExtract
    /\ processQueue # <<>>
    /\ ~ExtractFails(Head(processQueue))
    /\ extract' = extract (+) One([pc |-> "send", task |-> ExtractNotes(Head(processQueue))])
    /\ processQueue' = Tail(processQueue)
    /\ UNCHANGED treeVars
    /\ UNCHANGED <<genLine, downloadQueue, ankiQueue, fetch, upl, fatal, hist,
                   emitted, consumed, created, accepted, dump, fed, arrived, retried>>

ExtractFatal ==
    /\ Running
    /\ BagCardinality(extract) < NumExtract
    /\ processQueue # <<>>
    /\ ExtractFails(Head(processQueue))
    /\ Exit("HtmlProcessor")
    /\ UNCHANGED <<created, dump>>
    /\ UNCHANGED treeVars

\* out <- task  (line 374)
ExtractSend(x) ==
    /\ Running
    /\ x.pc = "send"
    /\ CanSend(ankiQueue)
    /\ ankiQueue' = Send(ankiQueue, x.task)
    /\ extract' = extract (-) One(x)
    /\ UNCHANGED treeVars
    /\ UNCHANGED <<genLine, downloadQueue, processQueue, fetch, upl, fatal, hist,
                   emitted, consumed, created, accepted, dump, fed, arrived, retried>>

HtmlProcessor ==
    \/ ExtractRecv
    \/ ExtractFatal
    \/ \E x \in BagToSet(extract) : ExtractSend(x)

-----------------------------------------------------------------------------
(* NoteUploader: pc "start" (client.Decks.GetAll), "recv" (for task :=      *)
(* range in, and the deck check), "add" (the loop over task.notes)          *)

\* What Decks.GetAll may answer at startup
Snapshots == {{"Default"}, {"Default", "Go::Std::fmt"}}

\* What Notes.Add may answer: nil, or an error carrying a status code
AddOutcomes == {"nil", "err200", "err500"}

UplStart ==
    /\ Running
    /\ upl.pc = "start"
    /\ \E snap \in Snapshots : upl' = [upl EXCEPT !.pc = "recv", !.decks = snap]
    /\ UNCHANGED treeVars
    /\ UNCHANGED <<genLine, downloadQueue, processQueue, ankiQueue, fetch, extract,
                   fatal, hist, emitted, consumed, created, accepted, dump, fed, arrived, retried>>

\* client.Decks.GetAll failed: log.Fatal
UplStartFatal ==
    /\ Running
    /\ upl.pc = "start"
    /\ Exit("NoteUploader::DeckRequestFailed")
    /\ UNCHANGED <<created, dump>>
    /\ UNCHANGED treeVars

\* client.Decks.Create failed for the task at the head of the channel: log.Fatal
UplCreateFatal ==
    /\ Running
    /\ upl.pc = "recv"
    /\ ankiQueue # <<>>
    /\ Head(ankiQueue).deck \notin upl.decks
    /\ created' = [created EXCEPT ![Head(ankiQueue).deck] = @ + 1]
    /\ Exit("NoteUploader::DeckCreationFailed")
    /\ UNCHANGED dump
    /\ UNCHANGED treeVars

\* Notes.Add answered an error whose status is neither 200 nor 500:
\* json.MarshalIndent(note), log.Fatalf
UplAddFatal ==
    /\ Running
    /\ upl.pc = "add"
    /\ upl.i < Len(upl.task.notes)
    /\ dump' = <<[task |-> upl.task.id, i |-> upl.i, note |-> upl.task.notes[upl.i + 1]]>>
    /\ Exit("NoteUploader::UploadFailed")
    /\ UNCHANGED created
    /\ UNCHANGED treeVars

\* The decks Create is called for when `task` arrives: the guard reads the
\* startup snapshot, which is never updated.
NeedsCreateAlways(task) == TRUE
NeedsCreate(task) == task.deck \notin upl.decks

\* task := <-in; the deck check and Decks.Create; i := 0
UplRecv ==
    /\ Running
    /\ upl.pc = "recv"
    /\ ankiQueue # <<>>
    /\ LET task == Head(ankiQueue) IN
         /\ upl' = [upl EXCEPT !.pc = "add", !.task = task, !.i = 0]
         /\ created' = IF NeedsCreate(task)
                         THEN [created EXCEPT ![task.deck] = @ + 1]
                         ELSE created
         /\ consumed' = [consumed EXCEPT ![task.id] = @ + 1]
         /\ arrived' = [arrived EXCEPT ![task.deck] = @ + 1]
    /\ ankiQueue' = Tail(ankiQueue)
    /\ accepted' = <<>>
    /\ retried' = FALSE
    /\ UNCHANGED treeVars
    /\ UNCHANGED <<genLine, downloadQueue, processQueue, fetch, extract, fatal,
                   hist, emitted, dump, fed>>

\* The index after Notes.Add answered `o` for note i: it advances on nil and
\* on status 200, and stays on status 500 (sleep, continue Outer).
NextIndexAlways(i, o) == i + 1
NextIndex(i, o) == IF o \in {"nil", "err200"} THEN i + 1 ELSE i

\* note := task.notes[i]; err := client.Notes.Add(note); the switch
UplAdd ==
    /\ Running
    /\ upl.pc = "add"
    /\ upl.i < Len(upl.task.notes)
    /\ \E o \in AddOutcomes :
         /\ upl' = [upl EXCEPT !.i = NextIndex(upl.i, o)]
         /\ accepted' = IF o \in {"nil", "err200"}
                          THEN Append(accepted, upl.task.notes[upl.i + 1])
                          ELSE accepted
         /\ retried' = (retried \/ o = "err500")
    /\ UNCHANGED treeVars
    /\ UNCHANGED <<genLine, downloadQueue, processQueue, ankiQueue, fetch, extract,
                   fatal, hist, emitted, consumed, created, dump, fed, arrived>>

\* i = len(task.notes): the log line, then the next receive
UplDone ==
    /\ Running
    /\ upl.pc = "add"
    /\ upl.i >= Len(upl.task.notes)
    /\ upl' = [upl EXCEPT !.pc = "recv"]
    /\ UNCHANGED treeVars
    /\ UNCHANGED <<genLine, downloadQueue, processQueue, ankiQueue, fetch, extract,
                   fatal, hist, emitted, consumed, created, accepted, dump, fed, arrived, retried>>

NoteUploader ==
    UplStart \/ UplStartFatal \/ UplCreateFatal \/ UplAddFatal \/ UplRecv \/ UplAdd \/ UplDone

-----------------------------------------------------------------------------
(* main: the three channels and the goroutines *)

TreeIdle ==
    /\ tree = <<>>
    /\ sel = {}
    /\ result = <<>>
    /\ op = "idle"
    /\ xtask = NoTask

Init ==
    /\ genLine = 1
    /\ downloadQueue = <<>>
    /\ processQueue = <<>>
    /\ ankiQueue = <<>>
    /\ fetch = EmptyBag
    /\ extract = EmptyBag
    /\ upl = [pc |-> "start", task |-> NoTask, i |-> 0, decks |-> {}]
    /\ fatal = ""
    /\ hist = [t \in TaskIds |-> <<>>]
    /\ emitted = [t \in TaskIds |-> 0]
    /\ consumed = [t \in TaskIds |-> 0]
    /\ created = [d \in DeckNames |-> 0]
    /\ accepted = <<>>
    /\ dump = <<>>
    /\ fed = 0
    /\ arrived = [d \in DeckNames |-> 0]
    /\ retried = FALSE
    /\ TreeIdle

Next == TaskGenerator \/ HtmlDownloader \/ HtmlProcessor \/ NoteUploader

Spec == Init /\ [][Next]_vars

-----------------------------------------------------------------------------
(* NoteUploader alone: any producer feeds ankiQueue with tasks as           *)
(* HtmlProcessor leaves them (the notes of a page, which exist only under  *)
(* a deck name Task.ImportPath accepts).                                   *)

FeedIds == 1..MaxFeed

Feed ==
    /\ Running
    /\ fed < MaxFeed
    /\ CanSend(ankiQueue)
    /\ \E deck \in DeckNames, page \in Pages :
         LET task == [NewTask(fed + 1, "https://pkg.go.dev", deck) EXCEPT !.html = page] IN
           /\ ~ExtractFails(task)
           /\ ankiQueue' = Send(ankiQueue, ExtractNotes(task))
    /\ fed' = fed + 1
    /\ UNCHANGED treeVars
    /\ UNCHANGED <<genLine, downloadQueue, processQueue, fetch, extract, upl, fatal,
                   hist, emitted, consumed, created, accepted, dump, arrived, retried>>

PipeIdle ==
    /\ genLine = 0
    /\ downloadQueue = <<>>
    /\ processQueue = <<>>
    /\ ankiQueue = <<>>
    /\ fetch = EmptyBag
    /\ extract = EmptyBag
    /\ upl = [pc |-> "start", task |-> NoTask, i |-> 0, decks |-> {}]
    /\ fatal = ""
    /\ hist = <<>>
    /\ emitted = <<>>
    /\ consumed = [t \in FeedIds |-> 0]
    /\ created = [d \in DeckNames |-> 0]
    /\ accepted = <<>>
    /\ dump = <<>>
    /\ fed = 0
    /\ arrived = [d \in DeckNames |-> 0]
    /\ retried = FALSE

InitUpload == PipeIdle /\ TreeIdle

NextUpload == Feed \/ NoteUploader

SpecUpload == InitUpload /\ [][NextUpload]_vars

-----------------------------------------------------------------------------
(* html.Node trees.  An arena maps a node's index to its fields; the links *)
(* Parent, FirstChild, LastChild, PrevSibling and NextSibling hold indices, *)
(* Nil for a nil pointer.  The copy of source node k is stored under the    *)
(* same index k in the arena of copies.                                     *)

Nil == 0

\* The parent of every node but the root (node 1); siblings are in index order.
Shapes(n) == {p \in [2..n -> 1..(n - 1)] : \A k \in 2..n : p[k] < k}

\* The type of every node but the root: a text node has no children.
Kinds(n, p) ==
    {ty \in [2..n -> {"element", "text"}] :
        \A k \in 2..n : p[k] # 1 => ty[p[k]] = "element"}

SetMin(S) == IF S = {} THEN Nil ELSE CHOOSE x \in S : \A y \in S : x <= y
SetMax(S) == IF S = {} THEN Nil ELSE CHOOSE x \in S : \A y \in S : x >= y

TagOf(k) ==
    CASE k % 3 = 0 -> "p"
      [] k % 3 = 1 -> "div"
      [] OTHER -> "h4"

AttrOf(k) ==
    IF k % 2 = 0
      THEN <<[Namespace |-> "", Key |-> "class", Val |-> "c" \o ToString(k)],
             [Namespace |-> "", Key |-> "id", Val |-> "n" \o ToString(k)]>>
      ELSE <<>>

\* the html.Node of node k in a tree of n nodes with parents p and types ty
MakeNode(n, p, ty, k) ==
    LET type == IF k = 1 THEN "document" ELSE ty[k]
        sibs == IF k = 1 THEN {} ELSE {c \in 2..n : p[c] = p[k]}
        kids == {c \in 2..n : p[c] = k}
    IN [Type        |-> type,
        DataAtom    |-> IF type = "element" THEN TagOf(k) ELSE "",
        Data        |-> CASE type = "element" -> TagOf(k)
                          [] type = "text" -> "text" \o ToString(k)
                          [] OTHER -> "",
        Namespace   |-> IF type = "element" /\ k % 4 = 0 THEN "svg" ELSE "",
        Attr        |-> IF type = "element" THEN AttrOf(k) ELSE <<>>,
        Parent      |-> IF k = 1 THEN Nil ELSE p[k],
        FirstChild  |-> SetMin(kids),
        LastChild   |-> SetMax(kids),
        PrevSibling |-> SetMax({c \in sibs : c < k}),
        NextSibling |-> SetMin({c \in sibs : c > k})]

MakeTree(n, p, ty) == [k \in 1..n |-> MakeNode(n, p, ty, k)]

Trees ==
    UNION {UNION {{MakeTree(n, p, ty) : ty \in Kinds(n, p)} : p \in Shapes(n)} :
           n \in 1..MaxNodes}

\* the proper descendants of node k
RECURSIVE Descendants(_, _)
Descendants(t, k) ==
    LET kids == {c \in DOMAIN t : t[c].Parent = k}
    IN kids \cup UNION {Descendants(t, c) : c \in kids}

\* the ancestors of node k
RECURSIVE Ancestors(_, _)
Ancestors(t, k) ==
    IF t[k].Parent = Nil THEN {} ELSE {t[k].Parent} \cup Ancestors(t, t[k].Parent)

\* Copy: a flat copy of a node, all pointers nil
CopyWithoutAttr(node) ==
    [Type |-> node.Type, DataAtom |-> node.DataAtom, Data |-> node.Data,
     Namespace |-> "", Attr |-> <<>>,
     Parent |-> Nil, FirstChild |-> Nil, LastChild |-> Nil,
     PrevSibling |-> Nil, NextSibling |-> Nil]
Copy(node) ==
    [Type |-> node.Type, DataAtom |-> node.DataAtom, Data |-> node.Data,
     Namespace |-> "", Attr |-> node.Attr,
     Parent |-> Nil, FirstChild |-> Nil, LastChild |-> Nil,
     PrevSibling |-> Nil, NextSibling |-> Nil]

\* rec's test on a child c: sel(c) || c.Type == html.TextNode
KeepAcceptedOnly(src, c, S) == c \in S
KeepAll(src, c, S) == TRUE
Keep(src, c, S) == c \in S \/ src[c].Type = "text"

\* rec(root, cpy, sel): the loop over root's children from child c on, with
\* `prev` the last copy linked under cpy; h is the arena of copies so far.
RECURSIVE rec(_, _, _, _, _), recLoop(_, _, _, _, _, _)
recLoop(src, h, cpy, c, prev, S) ==
    IF c = Nil THEN [h EXCEPT ![cpy].LastChild = prev]
    ELSE IF Keep(src, c, S) THEN
      LET cur == [Copy(src[c]) EXCEPT !.Parent = cpy, !.PrevSibling = prev]
          h1  == [k \in DOMAIN h \cup {c} |-> IF k = c THEN cur ELSE h[k]]
          h2  == IF h1[cpy].FirstChild = Nil THEN [h1 EXCEPT ![cpy].FirstChild = c] ELSE h1
          h3  == IF prev # Nil THEN [h2 EXCEPT ![prev].NextSibling = c] ELSE h2
      IN recLoop(src, rec(src, h3, c, c, S), cpy, src[c].NextSibling, c, S)
    ELSE recLoop(src, h, cpy, src[c].NextSibling, prev, S)
rec(src, h, root, cpy, S) == recLoop(src, h, cpy, src[root].FirstChild, Nil, S)

\* DeepCopyFunc(root, sel), with sel given as the set S of nodes it accepts
DeepCopyFunc(src, root, S) ==
    rec(src, [k \in {root} |-> Copy(src[root])], root, root, S)

\* DeepCopy(root): sel accepts every node
DeepCopy(src, root) == DeepCopyFunc(src, root, DOMAIN src)

-----------------------------------------------------------------------------
(* DeepCopySubtrees.  `cache` is the map from nodes to booleans the function *)
(* fills: a function over the nodes that have an entry.                      *)

\* cache[node] = v
Put(cache, node, v) ==
    [k \in DOMAIN cache \cup {node} |-> IF k = node THEN v ELSE cache[k]]

\* the nodes the loop `for c := node.FirstChild; c != nil; c = c.NextSibling`
\* visits from c on, in order
RECURSIVE SiblingsFrom(_, _)
SiblingsFrom(src, c) ==
    IF c = Nil THEN <<>> ELSE <<c>> \o SiblingsFrom(src, src[c].NextSibling)

\* the first loop: every node of the given subtrees gets the entry true
RECURSIVE MarkSubtrees(_, _, _)
MarkSubtreesRootsOnly(src, stack, cache) ==
    [k \in DOMAIN cache \cup {stack[i] : i \in DOMAIN stack} |->
       IF k \in DOMAIN cache THEN cache[k] ELSE TRUE]
MarkSubtrees(src, stack, cache) ==
    IF stack = <<>> THEN cache
    ELSE LET node == Head(stack)
         IN MarkSubtrees(src,
                         Tail(stack) \o SiblingsFrom(src, src[node].FirstChild),
                         Put(cache, node, TRUE))

\* lookup(root): the answer and the cache it leaves
RECURSIVE lookup(_, _, _), lookupLoop(_, _, _, _)
lookupCacheOnly(src, cache, root) ==
    IF root = Nil THEN [res |-> FALSE, cache |-> cache]
    ELSE IF root \in DOMAIN cache THEN [res |-> cache[root], cache |-> cache]
    ELSE [res |-> FALSE, cache |-> Put(cache, root, FALSE)]
lookup(src, cache, root) ==
    IF root = Nil THEN [res |-> FALSE, cache |-> cache]
    ELSE IF root \in DOMAIN cache THEN [res |-> cache[root], cache |-> cache]
    ELSE lookupLoop(src, cache, root, src[root].FirstChild)
lookupLoop(src, cache, root, c) ==
    IF c = Nil THEN [res |-> FALSE, cache |-> Put(cache, root, FALSE)]
    ELSE LET r == lookup(src, cache, c)
         IN IF r.res
              THEN [res |-> TRUE, cache |-> Put(r.cache, root, TRUE)]
              ELSE lookupLoop(src, r.cache, root, src[c].NextSibling)

\* The calls of sel = lookup that rec makes, in rec's order, from child c on:
\* the cache after them.  rec descends into a child it keeps.
RECURSIVE selCalls(_, _, _)
selCalls(src, cache, c) ==
    IF c = Nil THEN cache
    ELSE LET r == lookup(src, cache, c)
         IN IF Keep(src, c, {x \in {c} : r.res})
              THEN selCalls(src, selCalls(src, r.cache, src[c].FirstChild),
                            src[c].NextSibling)
              ELSE selCalls(src, r.cache, src[c].NextSibling)

\* DeepCopySubtrees(root, subtrees): DeepCopyFunc(root, lookup); every answer
\* of lookup is the entry the cache keeps for the node
DeepCopySubtrees(src, root, subtrees) ==
    LET marked == MarkSubtrees(src, subtrees, <<>>)
        cache  == selCalls(src, marked, src[root].FirstChild)
    IN DeepCopyFunc(src, root, {k \in DOMAIN cache : cache[k]})

\* the lists without repetition of the nodes of S
ListsOf(S) ==
    {s \in [1..Cardinality(S) -> S] : \A i, j \in DOMAIN s : s[i] = s[j] => i = j}

\* sel holds the designated nodes
DoDeepCopySubtrees ==
    /\ op = "none"
    /\ \E subtrees \in ListsOf(sel) : result' = DeepCopySubtrees(tree, 1, subtrees)
    /\ op' = "DeepCopySubtrees"
    /\ UNCHANGED <<tree, sel, xtask>>
    /\ UNCHANGED pipeVars

DoDeepCopy ==
    /\ op = "none"
    /\ result' = DeepCopy(tree, 1)
    /\ op' = "DeepCopy"
    /\ UNCHANGED <<tree, sel, xtask>>
    /\ UNCHANGED pipeVars

DoDeepCopyFunc ==
    /\ op = "none"
    /\ result' = DeepCopyFunc(tree, 1, sel)
    /\ op' = "DeepCopyFunc"
    /\ UNCHANGED <<tree, sel, xtask>>
    /\ UNCHANGED pipeVars

InitTree ==
    /\ PipeIdle
    /\ tree \in Trees
    /\ sel \in SUBSET DOMAIN tree
    /\ result = <<>>
    /\ op = "none"
    /\ xtask = NoTask

NextTree == DoDeepCopy \/ DoDeepCopyFunc \/ DoDeepCopySubtrees

SpecTree == InitTree /\ [][NextTree]_vars

-----------------------------------------------------------------------------
(* Link normalization: HTMLTrees.Modify with HtmlProcessor's href closure.  *)
(* `tree` is the parsed document, `result` the document after the step.     *)

\* task.url of the task being processed
BaseURL == "https://pkg.go.dev/fmt"

\* url.Parse: the fields of the references that occur, or an error
ParseURL(v) ==
    CASE v = "https://pkg.go.dev/fmt" ->
           [ok |-> TRUE, Scheme |-> "https", Host |-> "pkg.go.dev", Path |-> "/fmt", Fragment |-> ""]
      [] v = "https://go.dev/doc" ->
           [ok |-> TRUE, Scheme |-> "https", Host |-> "go.dev", Path |-> "/doc", Fragment |-> ""]
      [] v = "/pkg/fmt" ->
           [ok |-> TRUE, Scheme |-> "", Host |-> "", Path |-> "/pkg/fmt", Fragment |-> ""]
      [] v = "#Println" ->
           [ok |-> TRUE, Scheme |-> "", Host |-> "", Path |-> "", Fragment |-> "Println"]
      [] OTHER -> [ok |-> FALSE]

\* (*URL).ResolveReference, for references with an absolute or empty path
ResolveReference(base, ref) ==
    IF ref.Scheme # "" \/ ref.Host # ""
      THEN [ref EXCEPT !.Scheme = IF ref.Scheme = "" THEN base.Scheme ELSE ref.Scheme]
      ELSE [ok |-> TRUE, Scheme |-> base.Scheme, Host |-> base.Host,
            Path |-> IF ref.Path = "" THEN base.Path ELSE ref.Path,
            Fragment |-> IF ref.Path = "" /\ ref.Fragment = ""
                           THEN base.Fragment ELSE ref.Fragment]

\* (*URL).String
URLString(u) ==
    (IF u.Scheme # "" THEN u.Scheme \o ":" ELSE "")
      \o (IF u.Host # "" THEN "//" \o u.Host ELSE "")
      \o u.Path
      \o (IF u.Fragment # "" THEN "#" \o u.Fragment ELSE "")

\* the value the closure stores for an href value v
Resolved(v) ==
    IF ParseURL(v).ok
      THEN URLString(ResolveReference(ParseURL(BaseURL), ParseURL(v)))
      ELSE v

\* The index the closure's loop visits after index i: the loop header's i++
\* and the i++ that ends the loop body.
NextAttrIndex(i) == i + 2

\* for i := 0; i < len(node.Attr); i++ { ...; i++ }, from index i (0-based)
RECURSIVE HrefLoop(_, _)
HrefLoop(attrs, i) ==
    IF i >= Len(attrs) THEN attrs
    ELSE HrefLoop(IF attrs[i + 1].Key = "href"
                    THEN [attrs EXCEPT ![i + 1].Val = Resolved(@)]
                    ELSE attrs,
                  NextAttrIndex(i))

\* Modify(node, f): f on the node, then Modify on every child
RECURSIVE Modify(_, _), ModifyFrom(_, _)
Modify(t, node) ==
    IF node = Nil THEN t
    ELSE ModifyFrom([t EXCEPT ![node].Attr = HrefLoop(@, 0)], t[node].FirstChild)
ModifyFrom(t, c) ==
    IF c = Nil THEN t ELSE ModifyFrom(Modify(t, c), t[c].NextSibling)

\* the attributes a node of a document may carry
LinkAttrs ==
    {[Namespace |-> "", Key |-> "href", Val |-> "/pkg/fmt"],
     [Namespace |-> "", Key |-> "href", Val |-> "https://go.dev/doc"],
     [Namespace |-> "", Key |-> "href", Val |-> "%zz"],
     [Namespace |-> "", Key |-> "class", Val |-> "Documentation-source"]}

AttrLists == UNION {[1..m -> LinkAttrs] : m \in 0..MaxAttrs}

\* documents: a document node over elements carrying attribute lists
LinkDocs(n) ==
    UNION {{[k \in 1..n |->
               IF k = 1 THEN MakeNode(n, p, [j \in 2..n |-> "element"], k)
               ELSE [MakeNode(n, p, [j \in 2..n |-> "element"], k)
                       EXCEPT !.Attr = al[k]]] :
             al \in [2..n -> AttrLists]} :
           p \in Shapes(n)}

DoModify ==
    /\ op = "none"
    /\ result' = Modify(tree, 1)
    /\ op' = "Modify"
    /\ UNCHANGED <<tree, sel, xtask>>
    /\ UNCHANGED pipeVars

InitLinks ==
    /\ PipeIdle
    /\ tree \in LinkDocs(MaxDocNodes)
    /\ sel = {}
    /\ result = <<>>
    /\ op = "none"
    /\ xtask = NoTask

NextLinks == DoModify

SpecLinks == InitLinks /\ [][NextLinks]_vars

-----------------------------------------------------------------------------
(* HtmlProcessor's loop body on a parsed page.  `tree` is root, the result  *)
(* of html.Parse(task.html).  A page is the document node over sections and *)
(* containers, each with its children.  A declaration block stands for the  *)
(* div with its span[data-kind] and the span's text; a header stands for    *)
(* the h4 with its a.Documentation-source link and the link's text.         *)

\* the elements and the text of a page: tag and class
Tag(label) ==
    CASE label \in {"secVar", "secConst"} -> "section"
      [] label \in {"decl", "func", "type"} -> "div"
      [] label \in {"fhead", "thead"} -> "h4"
      [] label = "p" -> "p"
      [] OTHER -> "\n"

Class(label) ==
    CASE label = "secVar" -> "Documentation-variables"
      [] label = "secConst" -> "Documentation-constants"
      [] label = "decl" -> "Documentation-declaration"
      [] label = "func" -> "Documentation-function"
      [] label = "fhead" -> "Documentation-functionHeader"
      [] label = "type" -> "Documentation-type"
      [] label = "thead" -> "Documentation-typeHeader"
      [] OTHER -> ""

\* what a section or a container of a page may hold
KidLabels(top) ==
    CASE top \in {"secVar", "secConst"} -> {"decl", "p", "ws"}
      [] top = "func" -> {"fhead", "p"}
      [] OTHER -> {"thead"}

\* a section or container with its children: n nodes
Groups(n) ==
    UNION {{[top |-> top, kids |-> kids] : kids \in [1..(n - 1) -> KidLabels(top)]} :
           top \in {"secVar", "secConst", "func", "type"}}

\* the sequences of groups of n nodes in all
RECURSIVE GroupSeqs(_)
GroupSeqs(n) ==
    IF n = 0 THEN {<<>>}
    ELSE UNION {LET rests == GroupSeqs(n - s)
                IN {<<g>> \o rest : g \in Groups(s), rest \in rests} :
                s \in 1..n}

\* labels and parents of the nodes 2, 3, ... of a page, in document order;
\* b is the index of the first node of gs
RECURSIVE FlatLabels(_), FlatParents(_, _)
FlatLabels(gs) ==
    IF gs = <<>> THEN <<>>
    ELSE <<Head(gs).top>> \o Head(gs).kids \o FlatLabels(Tail(gs))
FlatParents(gs, b) ==
    IF gs = <<>> THEN <<>>
    ELSE <<1>> \o [i \in 1..Len(Head(gs).kids) |-> b]
           \o FlatParents(Tail(gs), b + 1 + Len(Head(gs).kids))

\* the node arena html.Parse builds for the page
MakeDoc(gs) ==
    LET lab == FlatLabels(gs)
        fp  == FlatParents(gs, 2)
        n   == Len(lab) + 1
        p   == [k \in 2..n |-> fp[k - 1]]
        ty  == [k \in 2..n |-> IF lab[k - 1] = "ws" THEN "text" ELSE "element"]
    IN [k \in 1..n |->
          IF k = 1 THEN MakeNode(n, p, ty, 1)
          ELSE [MakeNode(n, p, ty, k) EXCEPT
                  !.Data = Tag(lab[k - 1]),
                  !.DataAtom = IF ty[k] = "element" THEN Tag(lab[k - 1]) ELSE "",
                  !.Namespace = "",
                  !.Attr = IF Class(lab[k - 1]) = "" THEN <<>>
                           ELSE <<[Namespace |-> "", Key |-> "class",
                                   Val |-> Class(lab[k - 1])]>>]]

\* the pages of at most n nodes below the document node
ExtDocs(n) == UNION {{MakeDoc(gs) : gs \in GroupSeqs(m)} : m \in 0..n}

\* html.Render, as the tokens of the text it writes; the texts of adjacent
\* text nodes run together in the rendering
Cat(a, b) ==
    IF a # <<>> /\ b # <<>> /\ a[Len(a)].tok = "text" /\ b[1].tok = "text"
      THEN SubSeq(a, 1, Len(a) - 1)
             \o <<[tok |-> "text", data |-> a[Len(a)].data \o b[1].data, attr |-> <<>>]>>
             \o Tail(b)
      ELSE a \o b

RECURSIVE Render(_, _), RenderFrom(_, _)
Render(t, k) ==
    CASE t[k].Type = "text" -> <<[tok |-> "text", data |-> t[k].Data, attr |-> <<>>]>>
      [] t[k].Type = "element" ->
           Cat(Cat(<<[tok |-> "start", data |-> t[k].Data, attr |-> t[k].Attr]>>,
                   RenderFrom(t, t[k].FirstChild)),
               <<[tok |-> "end", data |-> t[k].Data, attr |-> <<>>]>>)
      [] OTHER -> RenderFrom(t, t[k].FirstChild)
RenderFrom(t, c) ==
    IF c = Nil THEN <<>> ELSE Cat(Render(t, c), RenderFrom(t, t[c].NextSibling))

\* HTMLString(node)
HTMLString(t, node) == Render(t, node)

\* the nodes of the tree of k in document order
RECURSIVE Preorder(_, _), PreorderFrom(_, _)
Preorder(t, k) == <<k>> \o PreorderFrom(t, t[k].FirstChild)
PreorderFrom(t, c) ==
    IF c = Nil THEN <<>> ELSE Preorder(t, c) \o PreorderFrom(t, t[c].NextSibling)

\* tag.class
HasClass(node, tag, cls) ==
    /\ node.Type = "element"
    /\ node.Data = tag
    /\ \E i \in DOMAIN node.Attr : node.Attr[i].Key = "class" /\ node.Attr[i].Val = cls

\* "A B": B below an A
Below(t, k, tag, cls) == \E a \in Ancestors(t, k) : HasClass(t[a], tag, cls)

\* the selectors css.Parse builds
var_selector(t, k) ==
    /\ HasClass(t[k], "div", "Documentation-declaration")
    /\ Below(t, k, "section", "Documentation-variables")
const_selector(t, k) ==
    /\ HasClass(t[k], "div", "Documentation-declaration")
    /\ Below(t, k, "section", "Documentation-constants")
func_selector(t, k) == HasClass(t[k], "div", "Documentation-function")
func_header_selector(t, k) ==
    /\ HasClass(t[k], "h4", "Documentation-functionHeader")
    /\ Below(t, k, "div", "Documentation-function")
type_selector(t, k) == HasClass(t[k], "div", "Documentation-type")
type_header_selector(t, k) ==
    /\ HasClass(t[k], "h4", "Documentation-typeHeader")
    /\ Below(t, k, "div", "Documentation-type")

\* selector.Select(root): the nodes of the tree of root that match, given as
\* the set `matching`, in document order
Select(t, root, matching) ==
    LET F(k) == k \in matching IN SelectSeq(Preorder(t, root), F)

\* the value of c.NextSibling.NextSibling; Panic when c.NextSibling is nil
\* (nil pointer dereference: the runtime ends the process)
Panic == -1
NextNext(t, c) ==
    IF t[c].NextSibling = Nil THEN Panic ELSE t[t[c].NextSibling].NextSibling

\* for c := ...; c != nil && c.Data == "p"; c = c.NextSibling.NextSibling {
\*     nodes = append(nodes, c) }
RECURSIVE CollectFrom(_, _, _)
CollectFrom(t, c, nodes) ==
    IF c = Panic THEN [nodes |-> nodes, panic |-> TRUE]
    ELSE IF c # Nil /\ t[c].Data = "p"
      THEN CollectFrom(t, NextNext(t, c), Append(nodes, c))
      ELSE [nodes |-> nodes, panic |-> FALSE]

\* nodes := []*html.Node{variable}, then the loop from
\* variable.NextSibling.NextSibling
Following(t, block) == CollectFrom(t, NextNext(t, block), <<block>>)

\* Task.AddNote(front, back, ""); `from` records which nodes the card was
\* built from (an observation, not a field of the note)
AddNoteOf(task, front, back, from) ==
    [task EXCEPT !.notes = Append(@, [DeckName |-> task.deck,
                                      Front |-> front, Back |-> back,
                                      from |-> from])]

\* The loop over the variables (or the constants) from the i-th block on.
\* task.end is "" while the body runs, else what ended the process, and
\* task.at the category it ended in.
RECURSIVE DeclLoop(_, _, _, _, _)
DeclLoop(root, task, kind, blocks, i) ==
    IF i > Len(blocks) THEN task
    ELSE IF ~ImportPathOk(task)
      THEN [task EXCEPT !.end = "ImportPath", !.at = kind]
    ELSE LET f == Following(root, blocks[i]) IN
      IF f.panic THEN [task EXCEPT !.end = "panic", !.at = kind]
      ELSE LET front == HTMLString(DeepCopySubtrees(root, 1, f.nodes), 1)
           IN DeclLoop(root,
                       AddNoteOf(task, front, front,
                                 [kind |-> kind, block |-> blocks[i],
                                  header |-> Nil, nodes |-> f.nodes]),
                       kind, blocks, i + 1)

\* The index of the header the loop pairs with the i-th container (an index
\* out of range ends the process)
HeaderIndex(headers, i) == i

\* The loop over the functions (or the types) from the i-th container on
RECURSIVE PairLoop(_, _, _, _, _, _)
PairLoop(root, task, kind, containers, headers, i) ==
    IF i > Len(containers) THEN task
    ELSE IF ~ImportPathOk(task)
      THEN [task EXCEPT !.end = "ImportPath", !.at = kind]
    ELSE IF HeaderIndex(headers, i) \notin DOMAIN headers
      THEN [task EXCEPT !.end = "panic", !.at = kind]
    ELSE LET container == containers[i]
             header == headers[HeaderIndex(headers, i)]
             back  == HTMLString(DeepCopySubtrees(root, 1, <<container>>), 1)
             front == HTMLString(DeepCopySubtrees(root, 1, <<header>>), 1)
         IN PairLoop(root,
                     AddNoteOf(task, front, back,
                               [kind |-> kind, block |-> container,
                                header |-> header, nodes |-> <<>>]),
                     kind, containers, headers, i + 1)

\* if len(func_headers) != len(functions) { log.Fatalf(...) }
CountsDifferNever(containers, headers) == FALSE
CountsDiffer(containers, headers) == Len(headers) # Len(containers)

\* Functions (or types): the two Selects, the test of the counts, the loop
Paired(root, task, kind, containers, headers) ==
    IF CountsDiffer(containers, headers)
      THEN [task EXCEPT !.end = "unexpected_amount_of_headers", !.at = kind]
      ELSE PairLoop(root, task, kind, containers, headers, 1)

\* The categories in the order of the loop body
CategoriesTypesFirst == <<"variable", "constant", "type", "function">>
Categories == <<"variable", "constant", "function", "type">>

\* one category of the loop body
Category(root, task, kind) ==
    LET all == DOMAIN root
    IN CASE kind = "variable" ->
              DeclLoop(root, task, kind,
                       Select(root, 1, {k \in all : var_selector(root, k)}), 1)
         [] kind = "constant" ->
              DeclLoop(root, task, kind,
                       Select(root, 1, {k \in all : const_selector(root, k)}), 1)
         [] kind = "function" ->
              Paired(root, task, kind,
                     Select(root, 1, {k \in all : func_selector(root, k)}),
                     Select(root, 1, {k \in all : func_header_selector(root, k)}))
         [] OTHER ->
              Paired(root, task, kind,
                     Select(root, 1, {k \in all : type_selector(root, k)}),
                     Select(root, 1, {k \in all : type_header_selector(root, k)}))

\* the categories from the j-th on, until one ends the process
RECURSIVE CategoriesFrom(_, _, _)
CategoriesFrom(root, task, j) ==
    IF j > Len(Categories) \/ task.end # "" THEN task
    ELSE CategoriesFrom(root, Category(root, task, Categories[j]), j + 1)

\* the loop body from html.Parse's result to the log.Printf before the send
LoopBody(task, root) == CategoriesFrom(Modify(root, 1), task, 1)

\* The loop body on the received task: it runs to the send, or it ends the
\* process (log.Fatalf, or a nil pointer dereference)
ProcBody ==
    /\ op = "parsed"
    /\ LET task == LoopBody(xtask, tree)
       IN /\ xtask' = task
          /\ op' = IF task.end = "" THEN "send" ELSE "exit"
    /\ UNCHANGED <<tree, sel, result>>
    /\ UNCHANGED pipeVars

\* out <- task
ProcSend ==
    /\ op = "send"
    /\ op' = "sent"
    /\ UNCHANGED <<tree, sel, result, xtask>>
    /\ UNCHANGED pipeVars

InitExtract ==
    /\ PipeIdle
    /\ tree \in ExtDocs(MaxExtNodes)
    /\ sel = {}
    /\ result = <<>>
    /\ op = "parsed"
    /\ \E deck \in DeckNames :
         xtask = [url |-> BaseURL, deck |-> deck, notes |-> <<>>, err |-> FALSE,
                  end |-> "", at |-> ""]

NextExtract == ProcBody \/ ProcSend

SpecExtract == InitExtract /\ [][NextExtract]_vars

-----------------------------------------------------------------------------

(* The round trip: a projection rendered by HTMLString, parsed again by     *)
(* html.Parse and projected again under the same relevance test.            *)

NewNode(type, data, attr) ==
    [Type |-> type, DataAtom |-> IF type = "element" THEN data ELSE "",
     Data |-> data, Namespace |-> "", Attr |-> attr,
     Parent |-> Nil, FirstChild |-> Nil, LastChild |-> Nil,
     PrevSibling |-> Nil, NextSibling |-> Nil]

\* parent.AppendChild(node); the node gets the next index of the arena
AppendChild(t, parent, node) ==
    LET c    == Len(t) + 1
        last == t[parent].LastChild
        t1   == Append(t, [node EXCEPT !.Parent = parent, !.PrevSibling = last])
        t2   == [t1 EXCEPT ![parent].LastChild = c,
                           ![parent].FirstChild = IF @ = Nil THEN c ELSE @]
    IN IF last = Nil THEN t2 ELSE [t2 EXCEPT ![last].NextSibling = c]

\* the open elements down to, and without, the last open `tag`; the stack
\* itself when no `tag` is open
PopThrough(t, stack, tag) ==
    LET open == {i \in DOMAIN stack : t[stack[i]].Data = tag}
    IN IF open = {} THEN stack ELSE SubSeq(stack, 1, SetMax(open) - 1)

\* html.Parse, insertion mode "in body": a text token joins the text node
\* before it; a start tag of a block element closes an open p; an end tag
\* closes the elements up to its element, and </p> without an open p makes
\* an empty p.
RECURSIVE InBody(_, _, _)
InBody(t, stack, toks) ==
    IF toks = <<>> THEN t
    ELSE LET tk == Head(toks)
             top == stack[Len(stack)]
         IN CASE tk.tok = "text" ->
                   IF t[top].LastChild # Nil /\ t[t[top].LastChild].Type = "text"
                     THEN InBody([t EXCEPT ![t[top].LastChild].Data = @ \o tk.data],
                                 stack, Tail(toks))
                     ELSE InBody(AppendChild(t, top, NewNode("text", tk.data, <<>>)),
                                 stack, Tail(toks))
              [] tk.tok = "start" ->
                   LET st == PopThrough(t, stack, "p")
                       t1 == AppendChild(t, st[Len(st)],
                                         NewNode("element", tk.data, tk.attr))
                   IN InBody(t1, Append(st, Len(t1)), Tail(toks))
              [] OTHER ->
                   IF tk.data \in {"body", "html"} THEN t
                   ELSE IF \E i \in DOMAIN stack : t[stack[i]].Data = tk.data
                     THEN InBody(t, PopThrough(t, stack, tk.data), Tail(toks))
                   ELSE IF tk.data = "p"
                     THEN InBody(AppendChild(t, top, NewNode("element", "p", <<>>)),
                                 stack, Tail(toks))
                   ELSE InBody(t, stack, Tail(toks))

\* the tokens after a leading start tag `tag` (and, for head, its end tag)
IsStart(toks, tag) == toks # <<>> /\ toks[1].tok = "start" /\ toks[1].data = tag
AttrOfStart(toks, tag) == IF IsStart(toks, tag) THEN toks[1].attr ELSE <<>>
AfterStart(toks, tag) == IF IsStart(toks, tag) THEN Tail(toks) ELSE toks
AfterEnd(toks, tag) ==
    IF toks # <<>> /\ toks[1].tok = "end" /\ toks[1].data = tag THEN Tail(toks) ELSE toks

\* html.Parse: the document node, then html, head and body, each from its
\* start tag or implied, then the content of the body
Parse(toks) ==
    LET t0 == <<NewNode("document", "", <<>>)>>
        t1 == AppendChild(t0, 1, NewNode("element", "html", AttrOfStart(toks, "html")))
        k1 == AfterStart(toks, "html")
        t2 == AppendChild(t1, 2, NewNode("element", "head", AttrOfStart(k1, "head")))
        k2 == AfterEnd(AfterStart(k1, "head"), "head")
        t3 == AppendChild(t2, 2, NewNode("element", "body", AttrOfStart(k2, "body")))
        k3 == AfterStart(k2, "body")
    IN InBody(t3, <<4>>, k3)

\* a tree as tag, attributes, text and children in order
RECURSIVE Canon(_, _)
Canon(t, k) ==
    LET kids == SiblingsFrom(t, t[k].FirstChild)
    IN [Type |-> t[k].Type, Data |-> t[k].Data, Attr |-> t[k].Attr,
        kids |-> [i \in DOMAIN kids |-> Canon(t, kids[i])]]

\* the tree t with its nodes below the document node put into the body of a
\* document
RECURSIVE WrapFrom(_, _, _)
WrapFrom(t, w, k) ==
    IF k > Len(t) THEN w
    ELSE WrapFrom(t,
                  AppendChild(w, IF t[k].Parent = 1 THEN 4 ELSE t[k].Parent + 3,
                              NewNode(t[k].Type, t[k].Data, t[k].Attr)),
                  k + 1)
Wrap(t) == WrapFrom(t, Parse(<<>>), 2)

\* the documents html.Parse builds: parsing their rendering gives them back
RoundDocs ==
    {w \in {Wrap(t) : t \in Trees} : Canon(Parse(HTMLString(w, 1)), 1) = Canon(w, 1)}

\* relevance tests that look at the node alone
Relevance == {"all", "none", "notP", "notHead"}
Accepts(R, node) ==
    CASE R = "all" -> TRUE
      [] R = "none" -> FALSE
      [] R = "notP" -> ~(node.Type = "element" /\ node.Data = "p")
      [] OTHER -> ~(node.Type = "element" /\ node.Data = "head")
Accepted(t, R) == {k \in DOMAIN t : Accepts(R, t[k])}

\* project, serialize, re-parse, project again
RoundTrip(t, R) ==
    LET first  == DeepCopyFunc(t, 1, Accepted(t, R))
        text   == HTMLString(first, 1)
        parsed == Parse(text)
    IN [test |-> R, first |-> first, text |-> text, parsed |-> parsed,
        second |-> DeepCopyFunc(parsed, 1, Accepted(parsed, R))]

DoRoundTrip ==
    /\ op = "none"
    /\ \E R \in Relevance : result' = RoundTrip(tree, R)
    /\ op' = "RoundTrip"
    /\ UNCHANGED <<tree, sel, xtask>>
    /\ UNCHANGED pipeVars

InitRound ==
    /\ PipeIdle
    /\ tree \in RoundDocs
    /\ sel = {}
    /\ result = <<>>
    /\ op = "none"
    /\ xtask = NoTask

NextRound == DoRoundTrip

SpecRound == InitRound /\ [][NextRound]_vars

-----------------------------------------------------------------------------

(* Who holds a task *)

InQueue(q, t) == Cardinality({i \in DOMAIN q : q[i].id = t})

RECURSIVE InBagOf(_, _, _)
InBagOf(B, S, t) ==
    IF S = {} THEN 0
    ELSE LET x == CHOOSE y \in S : TRUE IN
           (IF x.task.id = t THEN CopiesIn(x, B) ELSE 0) + InBagOf(B, S \ {x}, t)
InBag(B, t) == InBagOf(B, BagToSet(B), t)

UplHolds(t) == IF upl.pc = "add" /\ upl.task.id = t THEN 1 ELSE 0

\* the queues and goroutines that hold task t
Owners(t) ==
    InQueue(downloadQueue, t) + InQueue(processQueue, t) + InQueue(ankiQueue, t)
      + InBag(fetch, t) + InBag(extract, t) + UplHolds(t)

\* the tasks TaskGenerator has sent
Emitted(t) == t \in TaskIds /\ (genLine > t \/ genLine = 0)

Only429(h) == \A i \in DOMAIN h : h[i] = "429"
Then200(h) == h # <<>> /\ h[Len(h)] = "200" /\ Only429(SubSeq(h, 1, Len(h) - 1))

-----------------------------------------------------------------------------
(* Claims *)

\* C1: a task whose fetches answered only 429s has not been sent downstream;
\* once they answered 429s and then one 200, the task is either still waiting
\* at the worker's send (not sent yet) or has been sent exactly once.
C1_RateLimitedTaskEmittedOnce ==
    Running =>
      \A t \in TaskIds :
        /\ Only429(hist[t]) => emitted[t] = 0
        /\ Then200(hist[t]) =>
             \/ emitted[t] = 0 /\ InBag(fetch, t) = 1
             \/ emitted[t] = 1 /\ InBag(fetch, t) = 0

C1_Witness ==
    \E t \in TaskIds :
      /\ Running
      /\ hist[t] = <<"429", "200">>
      /\ emitted[t] = 1
      /\ InBag(fetch, t) = 0

\* C2: after a transport error on a task (GET failed or body unreadable) the
\* task is forwarded with the error exactly once and never fetched again: no
\* worker is back at http.Get with it, no later answer follows the error,
\* and it is not sent a second time.
C2_TransportErrorForwardedOnceNotRetried ==
    Running =>
      \A t \in TaskIds :
        (\E i \in DOMAIN hist[t] : hist[t][i] = "err") =>
          /\ hist[t][Len(hist[t])] = "err"
          /\ emitted[t] <= 1
          /\ \A x \in BagToSet(fetch) : x.task.id = t => x.pc = "sendErr"

\* C3: every task has at most one owner: it is in one queue or held by one
\* goroutine, never both and never twice.
C3_SingleOwner == \A t \in TaskIds : Owners(t) <= 1

\* C4: no queue exceeds its capacity, and every task TaskGenerator has sent
\* is in a queue, held by a goroutine, or has been received by the uploader.
C4_NoTaskDropped ==
    /\ Len(downloadQueue) <= QueueCap
    /\ Len(processQueue) <= QueueCap
    /\ Len(ankiQueue) <= QueueCap
    /\ Running =>
         \A t \in TaskIds : Emitted(t) => Owners(t) >= 1 \/ consumed[t] >= 1

\* the source blocked on a full queue while every fetch worker is stalled
C4_Witness ==
    /\ Running
    /\ Len(downloadQueue) = QueueCap
    /\ fetch = EmptyBag
    /\ genLine \in Lines
    /\ Line(genLine).kind = "pair"
    /\ \A t \in TaskIds : Emitted(t) => Owners(t) = 1

\* C5 as stated: Decks.Create is called at most once per deck name.
C5_CreateAtMostOncePerName ==
    Running => \A d \in DeckNames : created[d] <= 1

\* C5 amended: Decks.Create is called once for every received task whose deck
\* name is not in the startup snapshot, and never for a name in the snapshot.
C5_CreateOncePerTaskOutsideSnapshot ==
    (Running /\ upl.pc # "start") =>
      \A d \in DeckNames :
        created[d] = IF d \in upl.decks THEN 0 ELSE arrived[d]

C5_Witness ==
    /\ Running
    /\ \E d \in DeckNames : d \notin upl.decks /\ arrived[d] = 2 /\ created[d] = 2
    /\ \E d \in DeckNames : d \in upl.decks /\ arrived[d] = 1 /\ created[d] = 0

\* C6: the notes Anki accepted for the task the uploader holds are exactly the
\* first i notes of the task, in list order; a finished task has every note
\* accepted once; the note dumped by a fatal answer is the first one not
\* accepted.
C6_NotesAcceptedInOrder ==
    /\ (Running /\ upl.pc = "add") =>
         /\ upl.i <= Len(upl.task.notes)
         /\ accepted = SubSeq(upl.task.notes, 1, upl.i)
    /\ (Running /\ upl.pc = "recv" /\ upl.task # NoTask) => accepted = upl.task.notes
    /\ dump # <<>> =>
         /\ Len(accepted) = dump[1].i
         /\ dump[1].note.Identifier[2] = dump[1].i + 1
         /\ \A k \in DOMAIN accepted : accepted[k].Identifier[2] = k

\* a task of two notes finished after a 500 on one of them
C6_Witness ==
    /\ Running
    /\ upl.pc = "recv"
    /\ upl.task # NoTask
    /\ Len(upl.task.notes) = 2
    /\ accepted = upl.task.notes
    /\ retried

\* C7: a task that carries a fetch error passes HtmlProcessor untouched: it
\* has no note when it is sent on, queued for or held by the uploader.
C7_ErrorTaskSkipsExtraction ==
    /\ \A x \in BagToSet(extract) : x.task.err => x.task.notes = <<>>
    /\ \A i \in DOMAIN ankiQueue : ankiQueue[i].err => ankiQueue[i].notes = <<>>
    /\ (upl.pc = "add" /\ upl.task.err) => upl.task.notes = <<>>

\* C8: after link normalization every href attribute of every node, at any
\* position of the attribute list, holds its value resolved against the
\* task's URL, unless the value does not parse; nothing else changes.
C8_EveryHrefResolved ==
    op = "Modify" =>
      /\ DOMAIN result = DOMAIN tree
      /\ \A k \in DOMAIN tree :
           /\ Len(result[k].Attr) = Len(tree[k].Attr)
           /\ \A i \in DOMAIN tree[k].Attr :
                /\ result[k].Attr[i].Key = tree[k].Attr[i].Key
                /\ result[k].Attr[i].Val =
                     IF tree[k].Attr[i].Key = "href"
                       THEN Resolved(tree[k].Attr[i].Val)
                       ELSE tree[k].Attr[i].Val

\* C9 as stated: a non-root node is copied iff its parent is copied and the
\* predicate accepts it, or it is a text node, or it has an accepted
\* descendant; so every accepted node and all its ancestors are copied.
C9_IncludedIffAcceptedTextOrAncestor ==
    op = "DeepCopyFunc" =>
      /\ \A c \in DOMAIN tree \ {1} :
           c \in DOMAIN result <=>
             /\ tree[c].Parent \in DOMAIN result
             /\ \/ c \in sel
                \/ tree[c].Type = "text"
                \/ Descendants(tree, c) \cap sel # {}
      /\ \A c \in sel : c \in DOMAIN result

\* C9 amended: a non-root node is copied, under the copy of its parent, iff
\* its parent is copied and the predicate accepts it or it is a text node.
C9_IncludedIffAcceptedOrText ==
    op = "DeepCopyFunc" =>
      /\ 1 \in DOMAIN result
      /\ \A c \in DOMAIN tree \ {1} :
           /\ c \in DOMAIN result <=>
                /\ tree[c].Parent \in DOMAIN result
                /\ c \in sel \/ tree[c].Type = "text"
           /\ c \in DOMAIN result => result[c].Parent = tree[c].Parent

\* a projection that keeps an accepted element with its text child, keeps a
\* text child of the root, and leaves a rejected element out
C9_Witness ==
    /\ op = "DeepCopyFunc"
    /\ \E c \in DOMAIN result \ {1}, d \in DOMAIN result \ {1} :
         /\ c \in sel /\ tree[c].Type = "element"
         /\ tree[d].Parent = c /\ tree[d].Type = "text" /\ d \notin sel
    /\ \E c \in DOMAIN tree \ DOMAIN result : tree[c].Type = "element"

\* C10: DeepCopy's tree has the nodes of the source, each with the source's
\* type, tag or text, attribute list, and parent, child and sibling links.
C10_DeepCopyIdentical ==
    op = "DeepCopy" =>
      /\ DOMAIN result = DOMAIN tree
      /\ \A k \in DOMAIN tree :
           /\ result[k].Type = tree[k].Type
           /\ result[k].DataAtom = tree[k].DataAtom
           /\ result[k].Data = tree[k].Data
           /\ result[k].Attr = tree[k].Attr
           /\ result[k].Parent = tree[k].Parent
           /\ result[k].FirstChild = tree[k].FirstChild
           /\ result[k].LastChild = tree[k].LastChild
           /\ result[k].PrevSibling = tree[k].PrevSibling
           /\ result[k].NextSibling = tree[k].NextSibling

\* a copied tree with an attributed element, a text node, two siblings and a
\* grandchild of the root
C10_Witness ==
    /\ op = "DeepCopy"
    /\ DOMAIN result = DOMAIN tree
    /\ \E k \in DOMAIN result : result[k].Attr # <<>>
    /\ \E k \in DOMAIN result : result[k].Type = "text"
    /\ \E k \in DOMAIN result : result[k].NextSibling # Nil
    /\ \E k \in DOMAIN result : result[k].Parent \notin {Nil, 1}

InSubtrees == sel \cup UNION {Descendants(tree, m) : m \in sel}

\* C12: DeepCopySubtrees with a non-empty designated set copies every
\* designated node and every ancestor of one, each under the copy of its
\* parent, and the copies under one parent are in the order of the source.
C12_MembersAndAncestorsInOrder ==
    (op = "DeepCopySubtrees" /\ sel # {}) =>
      /\ \A m \in sel :
           /\ m \in DOMAIN result
           /\ Ancestors(tree, m) \subseteq DOMAIN result
      /\ \A p \in DOMAIN result :
           LET kids == SiblingsFrom(result, result[p].FirstChild)
           IN /\ {kids[i] : i \in DOMAIN kids} =
                   {c \in DOMAIN result : tree[c].Parent = p}
              /\ \A i, j \in DOMAIN kids : i < j => kids[i] < kids[j]
              /\ \A i \in DOMAIN kids : result[kids[i]].Parent = p

\* a designated node two levels below the root, under a parent that is not
\* designated, with a copied sibling before it
C12_Witness ==
    /\ op = "DeepCopySubtrees"
    /\ \E m \in sel, c \in DOMAIN result :
         /\ tree[m].Parent \notin {Nil, 1}
         /\ tree[m].Parent \notin sel
         /\ tree[c].Parent = tree[m].Parent
         /\ c < m
         /\ result[c].NextSibling = m

C16_ShortDeckNeverUploaded ==
    \A d \in DeckNames :
      DeckParts(d) < 3 =>
        /\ created[d] = 0
        /\ \A k \in DOMAIN accepted : accepted[k].DeckName # d
        /\ (upl.pc = "add" => upl.task.deck # d)

\* C20: a task in the channel behind the fetch workers carries a payload or
\* an error, never both and never neither.
C20_PayloadXorError ==
    \A i \in DOMAIN processQueue :
      (processQueue[i].html # NoHtml) # processQueue[i].err

\* the containers and the headers of a category that the page holds
Located(kind) ==
    {k \in DOMAIN tree :
       IF kind = "function" THEN func_selector(tree, k) ELSE type_selector(tree, k)}
LocatedHeaders(kind) ==
    {k \in DOMAIN tree :
       IF kind = "function" THEN func_header_selector(tree, k)
       ELSE type_header_selector(tree, k)}
Mismatch(kind) == Cardinality(Located(kind)) # Cardinality(LocatedHeaders(kind))

\* the position of a category in the sequence variables, constants,
\* functions, types
Rank(kind) ==
    CASE kind = "variable" -> 1
      [] kind = "constant" -> 2
      [] kind = "function" -> 3
      [] OTHER -> 4

NotesOf(kind) == {i \in DOMAIN xtask.notes : xtask.notes[i].from.kind = kind}

RECURSIVE Trailing(_)
Trailing(c) ==
    IF c = Nil THEN <<>>
    ELSE IF tree[c].Type = "element" /\ tree[c].Data = "p"
      THEN <<c>> \o Trailing(tree[c].NextSibling)
    ELSE IF /\ tree[c].Type = "text"
            /\ tree[c].NextSibling # Nil
            /\ tree[tree[c].NextSibling].Type = "element"
            /\ tree[tree[c].NextSibling].Data = "p"
      THEN Trailing(tree[c].NextSibling)
    ELSE <<>>

\* C18: collecting the siblings of a variable or constant block never ends
\* the process, and the nodes of its card are the block and its trailing
\* paragraphs.
C18_TrailingParagraphsCollected ==
    op # "parsed" =>
      /\ xtask.end # "panic"
      /\ \A i \in NotesOf("variable") \cup NotesOf("constant") :
           LET from == xtask.notes[i].from
           IN from.nodes = <<from.block>> \o Trailing(tree[from.block].NextSibling)

\* C19: the header of every function or type card lies inside the container
\* of the card.
C19_HeaderInsideContainer ==
    op # "parsed" =>
      \A i \in NotesOf("function") \cup NotesOf("type") :
        xtask.notes[i].from.header \in Descendants(tree, xtask.notes[i].from.block)

\* C17: the tree projected again after rendering and parsing the projection
\* is the projection: the same tags, attributes, texts and children in order.
C17_RoundTripIdempotent ==
    op = "RoundTrip" => Canon(result.second, 1) = Canon(result.first, 1)

=============================================================================
